---- MODULE Spec2Model ----
(***************************************************************************)
(* Model of climate_change_dataset.py: one run of the dashboard script.    *)
(* The script loads a CSV, coerces the Year column, drops incomplete rows, *)
(* filters by the slider's year range, and then either warns that nothing  *)
(* is left or shows three key metrics and five "Result" blocks, each in    *)
(* its own try/except.                                                     *)
(*                                                                         *)
(* Numbers: every numeric cell is held as x2 = twice its value, so that    *)
(* values with a fractional part of .5 (Year 2000.5, 14.5 degrees) are     *)
(* integers.  Fitted coefficients are exact rationals [num, den].          *)
(***************************************************************************)
EXTENDS Integers, Sequences, FiniteSets

VARIABLES
    source,       \* what pd.read_csv(url) will produce: an exception or a frame
    year_range,   \* the slider's value <<a, b>>
    pc,           \* position of the script
    err,          \* the uncaught exception that ended the script, or "none"
    df,           \* the DataFrame df
    df_filtered,  \* the DataFrame df_filtered
    fit,          \* the fitted coefficients the script holds in variables
    out           \* what has been sent to the page, in order

vars == <<source, year_range, pc, err, df, df_filtered, fit, out>>

-----------------------------------------------------------------------------
(* Bounds of the exploration *)

MaxRows == 2       \* data rows in the CSV
MaxDefects == 1    \* empty cells, text cells and absent columns in the CSV
SliderSpan == 1    \* slider positions explored: MinYear .. MinYear + SliderSpan

(* The slider's limits *)
MinYear == 2000
MaxYear == 2024

\* slider positions explored (both ends, a <= b)
SliderYears == {y \in MinYear..(MinYear + SliderSpan) : y <= MaxYear}

-----------------------------------------------------------------------------
(* Columns *)

YearCol == "Year"
TempCol == "Avg Temperature"
CO2Col == "CO2 Emissions"
RenewCol == "Renewable Energy"
ForestCol == "Forest Area"
ExtremeCol == "Extreme Weather Events"
SeaCol == "Sea Level Rise"

MeasureCols == {TempCol, CO2Col, RenewCol, ForestCol, ExtremeCol, SeaCol}
AllCols == {YearCol} \cup MeasureCols

\* the subset=[...] of df.dropna
RequiredCols == {YearCol, TempCol, CO2Col, RenewCol, ForestCol, ExtremeCol, SeaCol}

-----------------------------------------------------------------------------
(* Cells, rows, frames *)

Num(x2) == [k |-> "num", x2 |-> x2]
NaN == [k |-> "nan", x2 |-> 0]
Text == [k |-> "text", x2 |-> 0]

\* A frame: its columns, the columns whose dtype is object (the parser found
\* text in them), and its rows; a row keeps its index label idx.
\* pd.DataFrame(): no columns, no rows
EmptyFrame == [cols |-> {}, object |-> {}, rows |-> <<>>]

\* (variant: looks at the columns only)
IsEmptyNoColumns(frame) == frame.cols = {}

\* df.empty
IsEmpty(frame) == frame.cols = {} \/ Len(frame.rows) = 0

\* the cells of column c, in row order
Column(frame, c) == [i \in 1..Len(frame.rows) |-> frame.rows[i].cell[c]]

\* some row of the frame holds text in column c
HasText(frame, c) == \E i \in 1..Len(frame.rows) : frame.rows[i].cell[c].k = "text"

-----------------------------------------------------------------------------
(* The CSV files explored: up to MaxRows rows drawn from sample records,   *)
(* with up to MaxDefects defects: a cell left empty, a cell holding text,  *)
(* or a column absent from the header.                                     *)

\* sample measurements (twice the value): 14.0/14.5 degrees, 4/5 tons, 10/20 %
\* renewables, 30/35 % forest, 2/3 events, 3.0/3.5 mm
ProfileA == [c \in MeasureCols |->
    CASE c = TempCol -> Num(28) [] c = CO2Col -> Num(8) [] c = RenewCol -> Num(20)
      [] c = ForestCol -> Num(60) [] c = ExtremeCol -> Num(4) [] c = SeaCol -> Num(6)]
ProfileB == [c \in MeasureCols |->
    CASE c = TempCol -> Num(29) [] c = CO2Col -> Num(10) [] c = RenewCol -> Num(40)
      [] c = ForestCol -> Num(60) [] c = ExtremeCol -> Num(6) [] c = SeaCol -> Num(7)]
ProfileC == [c \in MeasureCols |->
    CASE c = TempCol -> Num(29) [] c = CO2Col -> Num(10) [] c = RenewCol -> Num(20)
      [] c = ForestCol -> Num(70) [] c = ExtremeCol -> Num(4) [] c = SeaCol -> Num(6)]

CleanCells(y, p) == [c \in AllCols |-> IF c = YearCol THEN y ELSE p[c]]

\* sample records: Year 2000, 2001 and 2000.5
SampleRecords ==
    {CleanCells(Num(2 * MinYear), ProfileA),
     CleanCells(Num(2 * MinYear + 2), ProfileB),
     CleanCells(Num(2 * MinYear + 1), ProfileC)}

Defects(n) ==
    [d : {"absent"}, row : {0}, col : AllCols]
      \cup [d : {"nan", "text"}, row : 1..n, col : AllCols]

RECURSIVE SubsetsUpTo(_, _)
SubsetsUpTo(S, k) ==
    IF k = 0 THEN {{}}
    ELSE LET prev == SubsetsUpTo(S, k - 1)
         IN  prev \cup {T \cup {d} : T \in prev, d \in S}

\* no cell is both empty and text
Consistent(ds) ==
    \A d1 \in ds, d2 \in ds :
        (d1.row = d2.row /\ d1.col = d2.col /\ d1.row > 0) => d1 = d2

DefectSets(n) == {ds \in SubsetsUpTo(Defects(n), MaxDefects) : Consistent(ds)}

\* the frame pd.read_csv makes of such a file: RangeIndex labels 0..n-1
ParsedFrame(n, recs, ds) ==
    LET cols == {c \in AllCols : [d |-> "absent", row |-> 0, col |-> c] \notin ds}
        cellAt(i, c) ==
            IF [d |-> "nan", row |-> i, col |-> c] \in ds THEN NaN
            ELSE IF [d |-> "text", row |-> i, col |-> c] \in ds THEN Text
            ELSE recs[i][c]
    IN  [cols |-> cols,
         object |-> {c \in cols : \E i \in 1..n : cellAt(i, c).k = "text"},
         rows |-> [i \in 1..n |-> [idx |-> i - 1, cell |-> [c \in cols |-> cellAt(i, c)]]]]

\* the exceptions pd.read_csv can raise, by the except clause that catches them
LoadExceptions == {"FileNotFoundError", "EmptyDataError", "ParserError", "Exception"}

\* what pd.read_csv(url) can produce for the files explored
IsSource(src) ==
    \/ \E exc \in LoadExceptions : src = [exc |-> exc, frame |-> EmptyFrame]
    \/ \E n \in 0..MaxRows :
         \E ds \in DefectSets(n), recs \in [1..n -> SampleRecords] :
            src = [exc |-> "none", frame |-> ParsedFrame(n, recs, ds)]

\* st.sidebar.slider(min_value=2000, max_value=2024, value=(2000, 2024))
SliderValues == {<<a, b>> \in SliderYears \X SliderYears : a <= b}

\* a coefficient variable: not assigned yet, or the rational num/den
Unset == [set |-> FALSE, num |-> 0, den |-> 1]
\* float nan
NotANumber == [set |-> TRUE, num |-> 0, den |-> 0]
FitNames == {"slope_temp", "intercept_temp", "model_co2", "slope_sea",
             "intercept_sea", "corr", "coef_renew", "coef_forest"}

Init ==
    /\ IsSource(source)
    /\ year_range \in SliderValues
    /\ pc = "load"
    /\ err = "none"
    /\ df = EmptyFrame
    /\ df_filtered = EmptyFrame
    /\ fit = [f \in FitNames |-> Unset]
    /\ out = <<>>

-----------------------------------------------------------------------------
(* Output *)

Msg(kind, what, vals) == [kind |-> kind, what |-> what, vals |-> vals]

-----------------------------------------------------------------------------
(* Loading: lines 117-131 *)

LoadErrorText(exc) ==
    CASE exc = "FileNotFoundError" -> "File not found"
      [] exc = "EmptyDataError" -> "The file is empty"
      [] exc = "ParserError" -> "Error parsing the CSV file"
      [] OTHER -> "An unexpected error occurred while loading the dataset"

Load ==
    /\ pc = "load" /\ err = "none"
    /\ IF source.exc = "none"
       THEN /\ df' = source.frame
            /\ out' = Append(out, Msg("success", "Dataset loaded successfully!", <<>>))
       ELSE /\ df' = EmptyFrame
            /\ out' = Append(out, Msg("error", LoadErrorText(source.exc), <<>>))
    /\ pc' = "coerce"
    /\ UNCHANGED <<source, year_range, err, df_filtered, fit>>

-----------------------------------------------------------------------------
(* Preparation: lines 133-144 *)

\* pd.to_numeric(..., errors='coerce'): what is not a number becomes NaN
ToNumeric(cell) == IF cell.k = "text" THEN NaN ELSE cell

\* .astype(int) of one value: the fractional part is cut off
AsTypeInt(cell) == Num((cell.x2 \div 2) * 2)

\* .astype(int) raises on a column holding NaN
AsTypeIntRaises(column) == \E i \in 1..Len(column) : column[i].k = "nan"

ToNumericColumn(column) == [i \in 1..Len(column) |-> ToNumeric(column[i])]

\* df['Year'] = pd.to_numeric(df['Year'], errors='coerce').astype(int)
CoerceYear(frame) ==
    [cols |-> frame.cols,
     object |-> frame.object \ {YearCol},
     rows |-> [i \in 1..Len(frame.rows) |->
                 [idx |-> frame.rows[i].idx,
                  cell |-> [frame.rows[i].cell EXCEPT
                              ![YearCol] = AsTypeInt(ToNumeric(@))]]]]

Complete(row, cols) == \A c \in cols : row.cell[c].k # "nan"

\* df.dropna(subset=[...])
DropNa(frame) ==
    LET Keep(row) == Complete(row, RequiredCols)
    IN  [frame EXCEPT !.rows = SelectSeq(frame.rows, Keep)]

InRange(row, yr) ==
    /\ row.cell[YearCol].x2 >= 2 * yr[1]
    /\ row.cell[YearCol].x2 <= 2 * yr[2]

Reverse(s) == [i \in 1..Len(s) |-> s[Len(s) + 1 - i]]

\* (variant: upper end of the range exclusive)
FilterYearsUpperExclusive(frame, yr) ==
    LET Keep(row) == InRange(row, yr) /\ row.cell[YearCol].x2 < 2 * yr[2]
    IN  [frame EXCEPT !.rows = SelectSeq(frame.rows, Keep)]

\* (variant: the selected rows come out last row first)
FilterYearsReversed(frame, yr) ==
    LET Keep(row) == InRange(row, yr)
    IN  [frame EXCEPT !.rows = Reverse(SelectSeq(frame.rows, Keep))]

\* (variant: the boolean mask is one row out of step with the frame)
FilterYearsShiftedMask(frame, yr) ==
    LET n == Len(frame.rows)
        kept == {i \in 1..n : i < n /\ InRange(frame.rows[i + 1], yr)}
        RECURSIVE Pick(_)
        Pick(i) == IF i > n THEN <<>>
                   ELSE (IF i \in kept THEN <<frame.rows[i]>> ELSE <<>>) \o Pick(i + 1)
    IN  [frame EXCEPT !.rows = Pick(1)]

\* df[(df['Year'] >= year_range[0]) & (df['Year'] <= year_range[1])]
FilterYears(frame, yr) ==
    LET Keep(row) == InRange(row, yr)
    IN  [frame EXCEPT !.rows = SelectSeq(frame.rows, Keep)]

\* the exception lines 134-141 raise on the frame, or "none"
PrepareError(frame) ==
    IF YearCol \notin frame.cols THEN "KeyError"
    ELSE IF AsTypeIntRaises(ToNumericColumn(Column(frame, YearCol))) THEN "IntCastingNaNError"
    ELSE IF ~(RequiredCols \subseteq frame.cols) THEN "KeyError"
    ELSE "none"

\* lines 134-144 on a frame they do not raise on
Prepare(frame, yr) == FilterYears(DropNa(CoerceYear(frame)), yr)

\* line 134
Coerce ==
    /\ pc = "coerce" /\ err = "none"
    /\ IF YearCol \notin df.cols
       THEN err' = "KeyError" /\ UNCHANGED <<df, pc>>
       ELSE IF AsTypeIntRaises(ToNumericColumn(Column(df, YearCol)))
       THEN err' = "IntCastingNaNError" /\ UNCHANGED <<df, pc>>
       ELSE df' = CoerceYear(df) /\ pc' = "dropna" /\ UNCHANGED err
    /\ UNCHANGED <<source, year_range, df_filtered, fit, out>>

\* lines 137-141
DropRows ==
    /\ pc = "dropna" /\ err = "none"
    /\ IF ~(RequiredCols \subseteq df.cols)
       THEN err' = "KeyError" /\ UNCHANGED <<df, pc>>
       ELSE df' = DropNa(df) /\ pc' = "filter" /\ UNCHANGED err
    /\ UNCHANGED <<source, year_range, df_filtered, fit, out>>

\* line 144
Filter ==
    /\ pc = "filter" /\ err = "none"
    /\ df_filtered' = FilterYears(df, year_range)
    /\ pc' = "branch"
    /\ UNCHANGED <<source, year_range, err, df, fit, out>>

\* lines 147-151
Branch ==
    /\ pc = "branch" /\ err = "none"
    /\ IF IsEmpty(df_filtered)
       THEN /\ out' = Append(out, Msg("warning", "No data available for the selected year range", <<>>))
            /\ pc' = "done"
       ELSE /\ out' = Append(out, Msg("subheader", "Key Metrics", <<>>))
            /\ pc' = "metrics"
    /\ UNCHANGED <<source, year_range, err, df, df_filtered, fit>>

-----------------------------------------------------------------------------
(* Arithmetic of the fits.  A point is <<x2, y2>>, twice the cell values.   *)

Points(frame, xc, yc) ==
    [i \in 1..Len(frame.rows) |->
        <<frame.rows[i].cell[xc].x2, frame.rows[i].cell[yc].x2>>]

RECURSIVE SumOf(_, _, _)
\* sum over the points of the product of coordinates i and j (0: the factor 1)
SumOf(pts, i, j) ==
    IF Len(pts) = 0 THEN 0
    ELSE (IF i = 0 THEN 1 ELSE pts[1][i]) * (IF j = 0 THEN 1 ELSE pts[1][j])
           + SumOf(Tail(pts), i, j)

\* n times the (co)variance sums: n*Sum(uv) - Sum(u)*Sum(v)
Sxx(pts) == Len(pts) * SumOf(pts, 1, 1) - SumOf(pts, 1, 0) * SumOf(pts, 1, 0)
Sxy(pts) == Len(pts) * SumOf(pts, 1, 2) - SumOf(pts, 1, 0) * SumOf(pts, 2, 0)
Syy(pts) == Len(pts) * SumOf(pts, 2, 2) - SumOf(pts, 2, 0) * SumOf(pts, 2, 0)

Rat(num, den) == [set |-> TRUE, num |-> num, den |-> den]

\* (variant: the two columns change places in the denominator)
OlsSlopeSwapped(pts) == Rat(Sxy(pts), Syy(pts))

\* least-squares slope and intercept of y on x, in the cells' own units
OlsSlope(pts) == Rat(Sxy(pts), Sxx(pts))
OlsIntercept(pts) ==
    Rat(SumOf(pts, 2, 0) * Sxx(pts) - Sxy(pts) * SumOf(pts, 1, 0),
        2 * Len(pts) * Sxx(pts))

\* LinearRegression().fit(X, y).coef_[0]: least squares on the centred data;
\* a predictor without variance gets the minimum-norm coefficient 0
LinearRegressionCoef(pts) ==
    IF Sxx(pts) = 0 THEN Rat(0, 1) ELSE OlsSlope(pts)

\* px.get_trendline_results(fig).iloc[0]["px_fit_results"].params:
\* no fit is stored for fewer than 2 points; sm.add_constant adds no constant
\* column to an x that is a non-zero constant already, which leaves one
\* parameter; otherwise <<intercept, slope>>
TrendlineParams(pts) ==
    IF Len(pts) < 2 THEN <<>>
    ELSE IF Sxx(pts) = 0
    THEN IF SumOf(pts, 1, 1) = 0
         THEN <<Rat(SumOf(pts, 2, 0), 2 * Len(pts)), Rat(0, 1)>>
         ELSE <<Rat(SumOf(pts, 1, 2), SumOf(pts, 1, 1))>>
    ELSE <<OlsIntercept(pts), OlsSlope(pts)>>

\* Series.mean()
Mean(frame, c) ==
    IF Len(frame.rows) = 0 THEN NotANumber
    ELSE Rat(SumOf(Points(frame, c, c), 1, 0), 2 * Len(frame.rows))

\* f"{x:.Nf}": the value in units of 1/scale, rounded half to even; nan prints "nan"
Format(r, scale) ==
    IF r.den = 0 THEN [nan |-> TRUE, val |-> 0]
    ELSE LET t == r.num * scale
             q == t \div r.den
             m == t % r.den
         IN  [nan |-> FALSE,
              val |-> IF 2 * m < r.den THEN q
                      ELSE IF 2 * m > r.den THEN q + 1
                      ELSE IF q % 2 = 0 THEN q ELSE q + 1]

Abs(r) == IF r.num < 0 THEN [r EXCEPT !.num = -r.num] ELSE r

\* Series.corr: Pearson's r = Sxy / sqrt(Sxx * Syy), held to the hundredth
\* nearest to it; nan for fewer than 2 points or a column without variance
Pearson(pts) ==
    IF Len(pts) < 2 \/ Sxx(pts) = 0 \/ Syy(pts) = 0 THEN NotANumber
    ELSE LET d == Sxx(pts) * Syy(pts)
             n == 40000 * Sxy(pts) * Sxy(pts)
             k == CHOOSE k \in 0..100 :
                    /\ k = 0 \/ (2 * k - 1) * (2 * k - 1) * d <= n
                    /\ n < (2 * k + 1) * (2 * k + 1) * d
         IN  Rat(IF Sxy(pts) < 0 THEN -k ELSE k, 100)

-----------------------------------------------------------------------------
(* Key metrics: lines 150-155 *)

MetricCols == <<TempCol, CO2Col, ExtremeCol>>

\* Series.mean() raises TypeError on a column of dtype object
MeanRaises(frame, c) == c \in frame.object

\* how many of the three metrics are shown before a mean raises
MetricsShown(frame) ==
    IF MeanRaises(frame, MetricCols[1]) THEN 0
    ELSE IF MeanRaises(frame, MetricCols[2]) THEN 1
    ELSE IF MeanRaises(frame, MetricCols[3]) THEN 2
    ELSE 3

MetricMsgs(frame, n) ==
    [i \in 1..n |-> Msg("metric", MetricCols[i], <<Format(Mean(frame, MetricCols[i]), 100)>>)]

KeyMetrics ==
    /\ pc = "metrics" /\ err = "none"
    /\ out' = out \o MetricMsgs(df_filtered, MetricsShown(df_filtered))
    /\ IF MetricsShown(df_filtered) < 3
       THEN err' = "TypeError" /\ UNCHANGED pc
       ELSE pc' = "result1" /\ UNCHANGED err
    /\ UNCHANGED <<source, year_range, df, df_filtered, fit>>

-----------------------------------------------------------------------------
(* The five Result blocks: lines 157-294.  Each is a try/except Exception.  *)

\* px.scatter(..., trendline="ols") and LinearRegression().fit raise
\* ValueError on a column holding a value that is no number
FitRaises(frame, xc, yc) == HasText(frame, xc) \/ HasText(frame, yc)

\* lines 158-189
Result1Raises(frame) ==
    \/ FitRaises(frame, YearCol, TempCol)
    \/ Len(TrendlineParams(Points(frame, YearCol, TempCol))) < 2

Result1 ==
    /\ pc = "result1" /\ err = "none"
    /\ LET params == TrendlineParams(Points(df_filtered, YearCol, TempCol))
           head == Append(out, Msg("subheader", "Result 1", <<>>))
       IN  IF Result1Raises(df_filtered)
           THEN /\ out' = Append(head, Msg("error", "Could not generate Global Temperature Trend", <<>>))
                /\ UNCHANGED fit
           ELSE /\ fit' = [fit EXCEPT !["slope_temp"] = params[2],
                                      !["intercept_temp"] = params[1]]
                /\ out' = head \o
                     <<Msg("chart", "Global Average Temperature Trend",
                           <<Format(params[2], 10000), Format(params[1], 100)>>),
                       Msg("markdown", "Result 1", <<Format(params[2], 10000)>>)>>
    /\ pc' = "result2"
    /\ UNCHANGED <<source, year_range, err, df, df_filtered>>

\* lines 192-211
Result2Raises(frame) == FitRaises(frame, CO2Col, TempCol)

Result2 ==
    /\ pc = "result2" /\ err = "none"
    /\ LET coef == LinearRegressionCoef(Points(df_filtered, CO2Col, TempCol))
           head == Append(out, Msg("subheader", "Result 2", <<>>))
       IN  IF Result2Raises(df_filtered)
           THEN /\ out' = Append(head, Msg("error", "Could not generate CO2 vs Temperature", <<>>))
                /\ UNCHANGED fit
           ELSE /\ fit' = [fit EXCEPT !["model_co2"] = coef]
                /\ out' = head \o
                     <<Msg("chart", "CO2 Emissions vs Avg Temperature", <<>>),
                       Msg("markdown", "Result 2", <<Format(coef, 10000)>>)>>
    /\ pc' = "result3"
    /\ UNCHANGED <<source, year_range, err, df, df_filtered>>

\* lines 214-245
Result3Raises(frame) ==
    \/ FitRaises(frame, YearCol, SeaCol)
    \/ Len(TrendlineParams(Points(frame, YearCol, SeaCol))) < 2

Result3 ==
    /\ pc = "result3" /\ err = "none"
    /\ LET params == TrendlineParams(Points(df_filtered, YearCol, SeaCol))
           head == Append(out, Msg("subheader", "Result 3", <<>>))
       IN  IF Result3Raises(df_filtered)
           THEN /\ out' = Append(head, Msg("error", "Could not generate Sea Level Rise", <<>>))
                /\ UNCHANGED fit
           ELSE /\ fit' = [fit EXCEPT !["slope_sea"] = params[2],
                                      !["intercept_sea"] = params[1]]
                /\ out' = head \o
                     <<Msg("chart", "Sea Level Rise Over Time",
                           <<Format(params[2], 10000), Format(params[1], 100)>>),
                       Msg("markdown", "Result 3", <<Format(params[2], 10000)>>)>>
    /\ pc' = "result4"
    /\ UNCHANGED <<source, year_range, err, df, df_filtered>>

\* lines 248-264
Result4Raises(frame) == FitRaises(frame, CO2Col, ExtremeCol)

Result4 ==
    /\ pc = "result4" /\ err = "none"
    /\ LET pts == Points(df_filtered, CO2Col, ExtremeCol)
           head == Append(out, Msg("subheader", "Result 4", <<>>))
       IN  IF Result4Raises(df_filtered)
           THEN /\ out' = Append(head, Msg("error", "Could not generate Extreme Weather Events plot", <<>>))
                /\ UNCHANGED fit
           ELSE /\ fit' = [fit EXCEPT !["corr"] = Pearson(pts)]
                /\ out' = head \o
                     <<Msg("chart", "Extreme Weather Events vs CO2 Emissions", <<>>),
                       Msg("markdown", "Result 4", <<Format(Pearson(pts), 100)>>)>>
    /\ pc' = "result5"
    /\ UNCHANGED <<source, year_range, err, df, df_filtered>>

\* lines 267-294: both fits, both charts and the sentence share one try
RenewFitRaises(frame) == FitRaises(frame, RenewCol, CO2Col)
ForestFitRaises(frame) == FitRaises(frame, ForestCol, CO2Col)
Result5Raises(frame) == RenewFitRaises(frame) \/ ForestFitRaises(frame)

Result5 ==
    /\ pc = "result5" /\ err = "none"
    /\ LET renew == LinearRegressionCoef(Points(df_filtered, RenewCol, CO2Col))
           forest == LinearRegressionCoef(Points(df_filtered, ForestCol, CO2Col))
           head == Append(out, Msg("subheader", "Result 5", <<>>))
       IN  IF Result5Raises(df_filtered)
           THEN /\ out' = Append(head, Msg("error", "Could not generate Renewable Energy & Forest Area plots", <<>>))
                /\ fit' = IF RenewFitRaises(df_filtered) THEN fit
                          ELSE [fit EXCEPT !["coef_renew"] = renew]
           ELSE /\ fit' = [fit EXCEPT !["coef_renew"] = renew, !["coef_forest"] = forest]
                /\ out' = head \o
                     <<Msg("chart", "Renewable Energy vs CO2 Emissions", <<>>),
                       Msg("chart", "Forest Area vs CO2 Emissions", <<>>),
                       Msg("markdown", "Result 5",
                           <<Format(Abs(renew), 10000), Format(Abs(forest), 10000)>>)>>
    /\ pc' = "done"
    /\ UNCHANGED <<source, year_range, err, df, df_filtered>>

-----------------------------------------------------------------------------

Next ==
    \/ Load \/ Coerce \/ DropRows \/ Filter \/ Branch
    \/ KeyMetrics \/ Result1 \/ Result2 \/ Result3 \/ Result4 \/ Result5

Spec == Init /\ [][Next]_vars

-----------------------------------------------------------------------------
(* Properties *)

\* df_filtered has been assigned (line 144 has run)
Prepared == pc \in {"branch", "metrics", "result1", "result2", "result3",
                    "result4", "result5", "done"}

\* the script is past the branch on df_filtered.empty
Branched == Prepared /\ pc # "branch"

Loaded == source.exc = "none"
Raw == source.frame

YearOf(row) == row.cell[YearCol].x2

IsSortedByYear(frame) ==
    \A i \in 1..Len(frame.rows), j \in 1..Len(frame.rows) :
        i < j => YearOf(frame.rows[i]) <= YearOf(frame.rows[j])

KeepsRawOrder(frame) ==
    \A i \in 1..Len(frame.rows), j \in 1..Len(frame.rows) :
        i < j => frame.rows[i].idx < frame.rows[j].idx

\* the raw record is in the frame, its measurements unchanged
Retained(raw, frame) ==
    \E i \in 1..Len(frame.rows) :
        /\ frame.rows[i].idx = raw.idx
        /\ \A c \in MeasureCols : frame.rows[i].cell[c] = raw.cell[c]

\* a raw record with a numeric year inside the slider's range, ends included
YearInRange(raw, yr) ==
    /\ raw.cell[YearCol].k = "num"
    /\ 2 * yr[1] <= YearOf(raw) /\ YearOf(raw) <= 2 * yr[2]

(* C1: every record of the filtered dataset has a <= year <= b, both ends
   included, and every complete raw record whose year lies in [a, b] is in
   the filtered dataset. *)
C1_YearRangeInclusive ==
    Prepared =>
        /\ \A i \in 1..Len(df_filtered.rows) :
              /\ 2 * year_range[1] <= YearOf(df_filtered.rows[i])
              /\ YearOf(df_filtered.rows[i]) <= 2 * year_range[2]
        /\ \A j \in 1..Len(Raw.rows) :
              (Complete(Raw.rows[j], RequiredCols) /\ YearInRange(Raw.rows[j], year_range))
                  => Retained(Raw.rows[j], df_filtered)

\* a one-year range: a record on the boundary is kept, another complete one is cut
C1_Witness ==
    /\ Prepared
    /\ year_range[1] = year_range[2]
    /\ Len(Raw.rows) = 2 /\ Len(df.rows) = 2 /\ Len(df_filtered.rows) = 1
    /\ YearOf(df_filtered.rows[1]) = 2 * year_range[2]

AllPresent(frame) ==
    \A i \in 1..Len(frame.rows) :
        \A c \in AllCols : c \in frame.cols /\ frame.rows[i].cell[c].k # "nan"

(* C3: on a source holding all seven columns, preparation does not fail: a
   record whose year is not a number, or that misses a value, is removed;
   afterwards every field of every record is present, and no complete record
   in range has been removed. *)
C3_IncompleteRecordsRemoved ==
    (Loaded /\ AllCols \subseteq Raw.cols) =>
        /\ pc \in {"coerce", "dropna", "filter"} => err = "none"
        /\ Prepared =>
              /\ AllPresent(df_filtered)
              /\ \A j \in 1..Len(Raw.rows) :
                    (Complete(Raw.rows[j], RequiredCols)
                       /\ YearInRange(Raw.rows[j], year_range))
                        => Retained(Raw.rows[j], df_filtered)

(* C4: when the source cannot be loaded, the run ends at the load with that
   error; no later step runs on an empty stand-in dataset. *)
C4_LoadFailureSurfaces ==
    (~Loaded /\ pc # "load") => (err = source.exc /\ df # EmptyFrame)

Pairs == {"temperature-vs-year", "temperature-vs-CO2", "sea-level-vs-year",
          "extreme-events-vs-CO2", "CO2-vs-renewables", "CO2-vs-forest-area"}

\* the computation of the pair raises on the frame
PairRaises(p, frame) ==
    CASE p = "temperature-vs-year" -> Result1Raises(frame)
      [] p = "temperature-vs-CO2" -> Result2Raises(frame)
      [] p = "sea-level-vs-year" -> Result3Raises(frame)
      [] p = "extreme-events-vs-CO2" -> Result4Raises(frame)
      [] p = "CO2-vs-renewables" -> RenewFitRaises(frame)
      [] p = "CO2-vs-forest-area" -> ForestFitRaises(frame)

BlockOf(p) ==
    CASE p = "temperature-vs-year" -> "Result 1"
      [] p = "temperature-vs-CO2" -> "Result 2"
      [] p = "sea-level-vs-year" -> "Result 3"
      [] p = "extreme-events-vs-CO2" -> "Result 4"
      [] OTHER -> "Result 5"

\* the sentence with the pair's result is on the page
Reported(p) ==
    \E i \in 1..Len(out) : out[i].kind = "markdown" /\ out[i].what = BlockOf(p)

(* C5: the run is not aborted by a failing analysis, and at its end every
   metric pair whose own computation does not fail has been reported. *)
C5_PairsIndependent ==
    (Branched /\ Len(df_filtered.rows) > 0) =>
        /\ err = "none"
        /\ pc = "done" =>
              \A p \in Pairs : ~PairRaises(p, df_filtered) => Reported(p)

\* the points a coefficient variable was fitted on
FitPoints(f) ==
    CASE f \in {"slope_temp", "intercept_temp"} -> Points(df_filtered, YearCol, TempCol)
      [] f = "model_co2" -> Points(df_filtered, CO2Col, TempCol)
      [] f \in {"slope_sea", "intercept_sea"} -> Points(df_filtered, YearCol, SeaCol)
      [] f = "coef_renew" -> Points(df_filtered, RenewCol, CO2Col)
      [] f = "coef_forest" -> Points(df_filtered, ForestCol, CO2Col)

(* C6: no slope is returned for fewer than 2 records or for a predictor
   without variance. *)
C6_NoSlopeWithoutVariance ==
    \A f \in FitNames \ {"corr"} :
        fit[f].set => (Len(FitPoints(f)) >= 2 /\ Sxx(FitPoints(f)) > 0)

(* C7: when a required column or the year column is absent from the source,
   preparation fails with the error MissingColumn and goes no further. *)
C7_MissingColumnError ==
    (Loaded /\ ~(AllCols \subseteq Raw.cols) /\ pc # "load") =>
        /\ ~Prepared
        /\ err \in {"none", "MissingColumn"}

\* num/den = a/b
RatEq(r, a, b) == r.set /\ r.den # 0 /\ b # 0 /\ r.num * b = a * r.den

(* C8: on exactly 2 records with distinct predictor values the fitted line
   goes through both points: slope = (y2 - y1) / (x2 - x1) and intercept =
   y1 - slope * x1; (2000, 14.0) and (2001, 14.5) give 0.5 and -986.0.
   Checked for the trendline of Result 1 and the regression of Result 2. *)
C8_LineThroughTwoPoints ==
    /\ (pc \in {"result2", "result3", "result4", "result5", "done"}
          /\ Len(df_filtered.rows) = 2) =>
         LET pts == Points(df_filtered, YearCol, TempCol)
         IN  pts[1][1] # pts[2][1] =>
               /\ RatEq(fit["slope_temp"], pts[2][2] - pts[1][2], pts[2][1] - pts[1][1])
               /\ RatEq(fit["intercept_temp"],
                        pts[1][2] * fit["slope_temp"].den - fit["slope_temp"].num * pts[1][1],
                        2 * fit["slope_temp"].den)
               /\ (pts = <<<<4000, 28>>, <<4002, 29>>>> =>
                     /\ RatEq(fit["slope_temp"], 1, 2)
                     /\ RatEq(fit["intercept_temp"], -986, 1)
                     /\ \E i \in 1..Len(out) :
                           out[i] = Msg("chart", "Global Average Temperature Trend",
                                        <<[nan |-> FALSE, val |-> 5000],
                                          [nan |-> FALSE, val |-> -98600]>>))
    /\ (pc \in {"result3", "result4", "result5", "done"}
          /\ Len(df_filtered.rows) = 2) =>
         LET pts == Points(df_filtered, CO2Col, TempCol)
         IN  pts[1][1] # pts[2][1] =>
               RatEq(fit["model_co2"], pts[2][2] - pts[1][2], pts[2][1] - pts[1][1])

\* the records (2000, 14.0) and (2001, 14.5), fitted by Results 1 and 2
C8_Witness ==
    /\ pc = "result3"
    /\ Points(df_filtered, YearCol, TempCol) = <<<<4000, 28>>, <<4002, 29>>>>
    /\ fit["slope_temp"].set /\ fit["model_co2"].set

(* C9: cleaning and filtering the prepared dataset again, with the same
   range, raises nothing and gives the same records in the same order. *)
C9_PrepareIdempotent ==
    Prepared =>
        /\ PrepareError(df_filtered) = "none"
        /\ Prepare(df_filtered, year_range) = df_filtered

\* a prepared dataset that holds a record whose year was cut to an integer
\* and has lost another record of the source
C9_Witness ==
    /\ Prepared
    /\ Len(df_filtered.rows) < Len(Raw.rows)
    /\ \E i \in 1..Len(df_filtered.rows), j \in 1..Len(Raw.rows) :
          /\ Raw.rows[j].idx = df_filtered.rows[i].idx
          /\ YearOf(Raw.rows[j]) % 2 = 1

(* C10: when no record is left after cleaning and filtering, the run ends
   without an error, with the warning as its only output after the load, and
   no metric, regression or correlation has been computed. *)
C10_EmptySkipsAnalyses ==
    (Branched /\ Len(df_filtered.rows) = 0) =>
        /\ pc = "done" /\ err = "none"
        /\ Len(out) = 2 /\ out[1].kind = "success" /\ out[2].kind = "warning"
        /\ \A f \in FitNames : ~fit[f].set

\* records were loaded, none is left, the run is over
C10_Witness ==
    /\ pc = "done"
    /\ Len(Raw.rows) > 0
    /\ Len(df_filtered.rows) = 0

====
